---------------------------- MODULE Spec2Model ----------------------------
(***************************************************************************)
(* Model of src/main.py: the ESP32-CAM capture agent (conectar_wifi,       *)
(* inicializar_camara, tomar_foto, send_image and the main loop) and the   *)
(* FastAPI ingestion handler analyze_image.                                *)
(*                                                                         *)
(* Bytes are one-character strings; "0xFF" stands for a byte that is not   *)
(* valid UTF-8.  A Python value whose type the code tests is a record with *)
(* its type: None, False, Bytes(b).                                        *)
(***************************************************************************)
EXTENDS Integers, Sequences, FiniteSets, TLC

VARIABLES
    \* ---- capture agent (device) ----
    pc,             \* position of the device program
    attached,       \* what wlan.isconnected() answers now (environment)
    isconnected,    \* last answer of wlan.isconnected() to conectar_wifi
    ip,             \* value returned by conectar_wifi, None before
    polls,          \* time.sleep(1) calls made by conectar_wifi
    init_calls,     \* calls of camera.init()
    armed,          \* outcome of inicializar_camara
    ticks,          \* time.sleep(5) calls made by the main loop
    capture_calls,  \* calls of camera.capture()
    cam,            \* what camera.capture() did in this tick
    foto,           \* value returned by tomar_foto in this tick
    send_calls,     \* calls of send_image
    socks,          \* one entry per socket.socket() call: "open" or "closed"
    hdr,            \* header block handed to the connection of this tick
    handed,         \* body bytes handed to s.send after the header block
    accepted,       \* body bytes the connection accepted
    response,       \* bytes accumulated by the recv loop
    exc,            \* exception that left send_image uncaught, "" if none
    wire,           \* body bytes handed to s.send in this tick, in order
    requests,       \* header blocks written, one count per socket of socks
    chunks,         \* what each s.recv of this tick returned, in order
    resp,           \* value send_image returned to the main loop in this tick
    waited,         \* time the main loop has slept since the last capture request
    \* ---- ingestion service (server) ----
    spc,            \* position of each invocation of analyze_image
    contents,       \* bytes read from the upload, per invocation
    img,            \* result of cv2.imdecode, per invocation
    path,           \* tmp.name, per invocation
    fs,             \* the staging directory: file name -> bytes, "None" if absent
    analyzed,       \* bytes DeepFace.analyze read from img_path, per invocation
    deepface_calls, \* calls of DeepFace.analyze, per invocation
    result,         \* value returned by DeepFace.analyze, per invocation
    reply           \* value returned by analyze_image, per invocation

devvars == << pc, attached, isconnected, ip, polls, init_calls, armed, ticks, capture_calls,
              cam, foto, send_calls, socks, hdr, handed, accepted, response, exc,
              wire, requests, chunks, resp, waited >>
srvvars == << spc, contents, img, path, fs, analyzed, deepface_calls, result, reply >>
vars == << devvars, srvvars >>

\* Python values
None == [ type |-> "NoneType" ]
False == [ type |-> "bool", val |-> FALSE ]
True == [ type |-> "bool", val |-> TRUE ]
Bytes(b) == [ type |-> "bytes", val |-> b ]
Str(t) == [ type |-> "str", val |-> t ]

-----------------------------------------------------------------------------
(* Bounds of the model *)

MaxPolls == 2
MaxTicks == 2
MaxFrameLen == 2
MaxShort == 1
MaxReplyLen == 2
MaxReqs == 2
MaxFaces == 2

-----------------------------------------------------------------------------
(* Byte sequences *)

SeqsUpTo(S, n) == UNION { [1..k -> S] : k \in 0..n }

\* Bytes a captured frame is made of in the model.
FrameBytes == { "J", "-" }
ShortFrames == SeqsUpTo(FrameBytes, MaxFrameLen)

\* Bytes the peer may answer with.
ReplyBytes == { "{", "0xFF" }
ReplyChunks == SeqsUpTo(ReplyBytes, MaxReplyLen) \ { << >> }

CRLF == << "\r", "\n" >>

boundary ==
    << "E", "S", "P", "3", "2", "B", "O", "U", "N", "D", "A", "R", "Y" >>

disposition ==
    << "C", "o", "n", "t", "e", "n", "t", "-", "D", "i", "s", "p", "o", "s", "i", "t", "i",
       "o", "n", ":", " ", "f", "o", "r", "m", "-", "d", "a", "t", "a", ";", " ", "n", "a",
       "m", "e", "=", "\"", "f", "i", "l", "e", "\"", ";", " ", "f", "i", "l", "e", "n", "a",
       "m", "e", "=", "\"", "i", "m", "a", "g", "e", ".", "j", "p", "g", "\"" >>

part_type ==
    << "C", "o", "n", "t", "e", "n", "t", "-", "T", "y", "p", "e", ":", " ", "i", "m", "a",
       "g", "e", "/", "j", "p", "e", "g" >>

\* A frame is opaque: it may hold any bytes, those of a multipart delimiter
\* included.
BoundaryFrames ==
    { CRLF \o << "-", "-" >> \o boundary,
      << "J" >> \o CRLF \o << "-", "-" >> \o boundary \o << "J" >>,
      << "-", "-" >> \o boundary }

Frames == ShortFrames \cup BoundaryFrames

\* body_start = "--" + boundary + "\r\n" + disposition + "\r\n" + part_type + "\r\n\r\n"
body_start ==
    << "-", "-" >> \o boundary \o CRLF \o disposition \o CRLF \o part_type \o CRLF \o CRLF

\* A terminator that does not open with a line break (faulty variant).
body_end_no_crlf ==
    << "-", "-" >> \o boundary \o << "-", "-" >> \o CRLF

\* body_end = "\r\n--" + boundary + "--\r\n"
body_end ==
    CRLF \o << "-", "-" >> \o boundary \o << "-", "-" >> \o CRLF

\* A length that forgets the terminator (faulty variant).
content_length_no_terminator(img_bytes) ==
    Len(body_start) + Len(img_bytes)

\* content_length = len(body_start) + len(img_bytes) + len(body_end)
content_length(img_bytes) ==
    Len(body_start) + Len(img_bytes) + Len(body_end)

DigitChar == << "0", "1", "2", "3", "4", "5", "6", "7", "8", "9" >>

\* "{}".format(n) for a non-negative integer: its decimal digits.
RECURSIVE FormatInt(_)
FormatInt(n) ==
    IF n < 10 THEN << DigitChar[n + 1] >>
    ELSE FormatInt(n \div 10) \o << DigitChar[(n % 10) + 1] >>

\* The header block written by the first s.send of send_image.
Header(img_bytes) ==
    [ method         |-> "POST",
      path           |-> "/analyze",
      host           |-> "10.18.206.186",
      content_type   |-> "multipart/form-data",
      boundary       |-> boundary,
      content_length |-> FormatInt(content_length(img_bytes)),
      connection     |-> "close" ]

NoHeader == [ method |-> "" ]

\* bytes.decode(): UTF-8; the byte "0xFF" is valid in no position.
DecodeOk(bytes) == \A i \in 1..Len(bytes) : bytes[i] # "0xFF"

\* What one s.send(data) may accept: all of it, or up to MaxShort bytes less.
SendAccepts(n) == { k \in 0..n : n - k <= MaxShort }

-----------------------------------------------------------------------------
(* The capture agent *)

\* camera.capture() returns a byte buffer, None, False or a value of another
\* type, or it raises.
CameraReturns == { Bytes(f) : f \in Frames } \cup { None, False, True }
CameraOutcomes == { [ raises |-> FALSE, val |-> v ] : v \in CameraReturns }
                    \cup { [ raises |-> TRUE ] }

\* No camera.capture() call has been made in this tick yet.
\* Line 252: the argument of time.sleep in the main loop.
SleepInterval == 5

NoCapture == [ raises |-> FALSE, val |-> [ type |-> "pending" ] ]

SendImagePcs == { "send_connect", "send_header", "send_body_start", "send_img",
                  "send_body_end", "send_recv", "send_close" }

DevInit ==
    /\ pc = "conectar_wifi"
    /\ attached \in BOOLEAN
    /\ isconnected = FALSE
    /\ ip = None
    /\ polls = 0
    /\ init_calls = 0
    /\ armed = "no"
    /\ ticks = 0
    /\ capture_calls = 0
    /\ cam = NoCapture
    /\ foto = None
    /\ send_calls = 0
    /\ socks = << >>
    /\ hdr = NoHeader
    /\ handed = 0
    /\ accepted = 0
    /\ response = << >>
    /\ exc = ""
    /\ wire = << >>
    /\ requests = << >>
    /\ chunks = << >>
    /\ resp = None
    /\ waited = 0

\* The network attaches or drops on its own.
NetworkChange ==
    /\ pc # "halted"
    /\ attached' = ~attached
    /\ UNCHANGED << srvvars, wire, requests, chunks, resp, waited, isconnected, pc, ip, polls, init_calls, armed, ticks, capture_calls, cam, foto,
                    send_calls, socks, hdr, handed, accepted, response, exc >>

\* conectar_wifi, lines 118-122: activate the interface and ask to connect.
conectar_wifi_start ==
    /\ pc = "conectar_wifi"
    /\ pc' = "wifi_poll"
    /\ UNCHANGED << srvvars, wire, requests, chunks, resp, waited, isconnected, attached, ip, polls, init_calls, armed, ticks, capture_calls, cam,
                    foto, send_calls, socks, hdr, handed, accepted, response, exc >>

\* A loop that does not wait for the network (faulty variant).
KeepPolling_never(answer) == FALSE

\* A loop whose test lost its "not" (faulty variant).
KeepPolling_inverted(answer) == answer

\* Line 125: while not wlan.isconnected()
KeepPolling(answer) == ~answer

\* conectar_wifi, lines 125-127: not connected yet, sleep one second and poll again.
conectar_wifi_poll ==
    /\ pc = "wifi_poll"
    /\ KeepPolling(attached)
    /\ polls < MaxPolls
    /\ polls' = polls + 1
    /\ isconnected' = attached
    /\ UNCHANGED << srvvars, wire, requests, chunks, resp, waited, pc, attached, ip, init_calls, armed, ticks, capture_calls, cam,
                    foto, send_calls, socks, hdr, handed, accepted, response, exc >>

\* conectar_wifi, lines 125 and 129-131, and line 245: isconnected() is true,
\* the address is returned and stored in ip.
conectar_wifi_return ==
    /\ pc = "wifi_poll"
    /\ ~KeepPolling(attached)
    /\ isconnected' = attached
    /\ ip' = Str("ifconfig0")
    /\ pc' = "inicializar_camara"
    /\ UNCHANGED << srvvars, wire, requests, chunks, resp, waited, attached, polls, init_calls, armed, ticks, capture_calls, cam,
                    foto, send_calls, socks, hdr, handed, accepted, response, exc >>

\* Outcome of inicializar_camara for each way its body can go.
ArmOutcome(how) == IF how = "ok" THEN "ok" ELSE "failed"

\* An arming failure that ends the program (faulty variant).
AfterArm_fatal(how) == IF how = "ok" THEN "sleep" ELSE "halted"

\* Where the program goes after inicializar_camara: the except clause swallows
\* every failure, so the main loop is entered either way.
AfterArm(how) == "sleep"

\* inicializar_camara, lines 200-205, called at line 248.
inicializar_camara ==
    /\ pc = "inicializar_camara"
    /\ \E how \in { "ok", "init_raises", "framesize_raises" } :
         /\ init_calls' = init_calls + 1
         /\ armed' = ArmOutcome(how)
         /\ pc' = AfterArm(how)
    /\ UNCHANGED << srvvars, wire, requests, chunks, resp, waited, isconnected, attached, ip, polls, ticks, capture_calls, cam, foto, send_calls,
                    socks, hdr, handed, accepted, response, exc >>

\* Main loop, line 252: time.sleep(5) opens a new tick.
main_sleep ==
    /\ pc = "sleep"
    /\ ticks < MaxTicks
    /\ ticks' = ticks + 1
    /\ cam' = NoCapture
    /\ foto' = None
    /\ hdr' = NoHeader
    /\ handed' = 0
    /\ accepted' = 0
    /\ response' = << >>
    /\ wire' = << >>
    /\ chunks' = << >>
    /\ resp' = None
    /\ waited' = waited + SleepInterval
    /\ pc' = "tomar_foto"
    /\ UNCHANGED << srvvars, requests, isconnected, attached, ip, polls, init_calls, armed, capture_calls, send_calls,
                    socks, exc >>

\* tomar_foto without the isinstance test of lines 224-226 (faulty variant).
tomar_foto_result_unchecked(out) ==
    IF out.raises THEN None
    ELSE IF out.val = False \/ out.val = None THEN None
    ELSE out.val

\* Value returned by tomar_foto for what camera.capture() did (lines 217-233).
tomar_foto_result(out) ==
    IF out.raises THEN None
    ELSE IF out.val = False \/ out.val = None THEN None
    ELSE IF out.val.type \notin { "bytes", "bytearray" } THEN None
    ELSE out.val

\* tomar_foto, lines 216-233, called at line 253.
tomar_foto ==
    /\ pc = "tomar_foto"
    /\ \E out \in CameraOutcomes :
         /\ cam' = out
         /\ foto' = tomar_foto_result(out)
    /\ capture_calls' = capture_calls + 1
    /\ waited' = 0
    /\ pc' = "check_foto"
    /\ UNCHANGED << srvvars, wire, requests, chunks, resp, isconnected, attached, ip, polls, init_calls, armed, ticks, send_calls, socks,
                    hdr, handed, accepted, response, exc >>

\* A loop that goes back to the capture, past the wait (faulty variant).
LoopBack_no_wait == "tomar_foto"

\* Lines 251-252: the body of "while True" opens with time.sleep.
LoopBack == "sleep"

\* The test of line 254.
ShouldSend(f) == f # None

\* Main loop, lines 254-255: send_image is called only with a frame.
main_check ==
    /\ pc = "check_foto"
    /\ IF ShouldSend(foto)
         THEN /\ pc' = "send_connect"
              /\ send_calls' = send_calls + 1
         ELSE /\ pc' = LoopBack
              /\ UNCHANGED send_calls
    /\ UNCHANGED << srvvars, wire, requests, chunks, resp, waited, isconnected, attached, ip, polls, init_calls, armed, ticks, capture_calls, cam,
                    foto, socks, hdr, handed, accepted, response, exc >>

\* An exception the main loop logs and forgets (faulty variant).
Uncaught_swallowed(e) ==
    /\ pc' = "sleep"
    /\ exc' = e

\* An exception nobody catches: send_image has no try, nor has the main loop.
Uncaught(e) ==
    /\ pc' = "halted"
    /\ exc' = e

\* State of the socket when an exception leaves send_image: s.close() at line
\* 190 is the only close and is not reached.
SockOnError == "open"

CloseLast(ss, st) == [ ss EXCEPT ![Len(ss)] = st ]

\* send_image, lines 145-165: the lengths are computed, the socket is created
\* and connected.
send_connect ==
    /\ pc = "send_connect"
    /\ \E ok \in BOOLEAN :
         IF ok
           THEN /\ socks' = Append(socks, "open")
                /\ pc' = "send_header"
                /\ UNCHANGED exc
           ELSE /\ socks' = Append(socks, SockOnError)
                /\ Uncaught("OSError")
    /\ requests' = Append(requests, 0)
    /\ UNCHANGED << srvvars, wire, chunks, resp, waited, isconnected, attached, ip, polls, init_calls, armed, ticks, capture_calls, cam,
                    foto, send_calls, hdr, handed, accepted, response >>

\* send_image, lines 168-175: the request line and the headers.
send_header ==
    /\ pc = "send_header"
    /\ \E ok \in BOOLEAN :
         IF ok
           THEN /\ hdr' = Header(foto.val)
                /\ requests' = [ requests EXCEPT ![Len(requests)] = @ + 1 ]
                /\ pc' = "send_body_start"
                /\ UNCHANGED << socks, exc >>
           ELSE /\ socks' = CloseLast(socks, SockOnError)
                /\ Uncaught("OSError")
                /\ UNCHANGED << hdr, requests >>
    /\ UNCHANGED << srvvars, wire, chunks, resp, waited, isconnected, attached, ip, polls, init_calls, armed, ticks, capture_calls, cam,
                    foto, send_calls, handed, accepted, response >>

\* One s.send(data) of the body: data is handed over, the connection accepts
\* some of it, the return value is not looked at; or the call raises.
SendBody(data, next) ==
    \/ /\ handed' = handed + Len(data)
       /\ wire' = wire \o data
       /\ \E k \in SendAccepts(Len(data)) : accepted' = accepted + k
       /\ pc' = next
       /\ UNCHANGED << socks, exc >>
    \/ /\ socks' = CloseLast(socks, SockOnError)
       /\ Uncaught("OSError")
       /\ UNCHANGED << handed, accepted, wire >>

\* send_image, line 178.
send_body_start ==
    /\ pc = "send_body_start"
    /\ SendBody(body_start, "send_img")
    /\ UNCHANGED << srvvars, requests, chunks, resp, waited, isconnected, attached, ip, polls, init_calls, armed, ticks, capture_calls, cam,
                    foto, send_calls, hdr, response >>

\* send_image, line 179.
send_img ==
    /\ pc = "send_img"
    /\ SendBody(foto.val, "send_body_end")
    /\ UNCHANGED << srvvars, requests, chunks, resp, waited, isconnected, attached, ip, polls, init_calls, armed, ticks, capture_calls, cam,
                    foto, send_calls, hdr, response >>

\* send_image, line 180.
send_body_end ==
    /\ pc = "send_body_end"
    /\ SendBody(body_end, "send_recv")
    /\ UNCHANGED << srvvars, requests, chunks, resp, waited, isconnected, attached, ip, polls, init_calls, armed, ticks, capture_calls, cam,
                    foto, send_calls, hdr, response >>

\* send_image, lines 183-188: one s.recv(512) of the reply loop.
send_recv ==
    /\ pc = "send_recv"
    /\ \/ \E data \in ReplyChunks :
            /\ Len(response) + Len(data) <= MaxReplyLen
            /\ response' = response \o data
            /\ chunks' = Append(chunks, data)
            /\ UNCHANGED << pc, socks, exc >>
       \/ /\ pc' = "send_close"
          /\ UNCHANGED << response, chunks, socks, exc >>
       \/ /\ socks' = CloseLast(socks, SockOnError)
          /\ Uncaught("OSError")
          /\ UNCHANGED << response, chunks >>
    /\ UNCHANGED << srvvars, wire, requests, resp, waited, isconnected, attached, ip, polls, init_calls, armed, ticks, capture_calls, cam,
                    foto, send_calls, hdr, handed, accepted >>

\* send_image, lines 190-192, and line 256: the socket is closed, the reply is
\* decoded and printed, returned, and decoded and printed again by the loop.
send_close ==
    /\ pc = "send_close"
    /\ socks' = CloseLast(socks, "closed")
    /\ IF DecodeOk(response)
         THEN /\ pc' = LoopBack
              /\ resp' = Bytes(response)
              /\ UNCHANGED exc
         ELSE /\ Uncaught("UnicodeError")
              /\ UNCHANGED resp
    /\ UNCHANGED << srvvars, wire, requests, chunks, waited, isconnected, attached, ip, polls, init_calls, armed, ticks, capture_calls, cam,
                    foto, send_calls, hdr, handed, accepted, response >>

-----------------------------------------------------------------------------
(* The ingestion service: analyze_image, lines 41-85 *)

Reqs == 1..MaxReqs

\* Names NamedTemporaryFile can give in the staging directory.
TmpNames == 1..MaxReqs

\* The uploads of the model: the empty buffer, a buffer that holds no image,
\* and two images ("J" opens a decodable image).  The handler never looks
\* inside the bytes, so their length is not a bound of the model.
Uploads == { << >>, << "x" >>, << "J" >>, << "J", "x" >> }

\* Not assigned yet in this invocation.
Unset == [ type |-> "unset" ]

\* An exception: its class, whether the class derives from Exception, str(e).
Error(class, msg) == [ class |-> class, is_exception |-> TRUE, msg |-> msg ]

\* cv2.imdecode(np_arr, cv2.IMREAD_COLOR): an empty buffer is rejected with an
\* exception, a buffer that holds no image gives None, an image gives its pixels.
imdecode_raises(buf) == Len(buf) = 0
imdecode(buf) ==
    IF buf[1] = "J" THEN [ type |-> "ndarray", val |-> buf ] ELSE None

\* A display step that lets None through (faulty variant).
imshow_raises_never(image) == FALSE

\* cv2.imshow(name, img) rejects None (and may fail for want of a display).
imshow_raises(image) == image = None

\* Emotion labels and the scores DeepFace gives them in the model.
Labels == { "happy", "sad" }
LabelSeq == << "happy", "sad" >>
Scores == { 1, 2 }

Float32(x) == [ type |-> "numpy.float32", val |-> x ]

\* float(v)
float(v) == [ type |-> "float", val |-> v.val ]

\* DeepFace's dominant emotion: the first label with the highest score.
DominantOf(e) ==
    LET best == CHOOSE i \in 1..Len(LabelSeq) :
                  /\ \A j \in 1..Len(LabelSeq) : e[LabelSeq[j]].val <= e[LabelSeq[i]].val
                  /\ \A j \in 1..(i - 1) : e[LabelSeq[j]].val < e[LabelSeq[i]].val
    IN LabelSeq[best]

\* The score mappings of the model: every label scored, no two alike.
EmotionMaps ==
    { e \in [ Labels -> { Float32(x) : x \in Scores } ] :
        \A k, l \in Labels : k # l => e[k] # e[l] }

\* One result object of DeepFace.analyze(actions=["emotion"]).
FaceResults ==
    { [ emotion |-> e, dominant_emotion |-> DominantOf(e), region |-> "box" ] :
        e \in EmotionMaps }

\* DeepFace.analyze returns one result object or a list of them, or raises.
AnalyzeReturns ==
    { [ type |-> "dict", val |-> f ] : f \in FaceResults }
      \cup { [ type |-> "list", val |-> l ] : l \in SeqsUpTo(FaceResults, MaxFaces) }

\* Lines 68-69: isinstance(result, list) -> result[0].
first_result_raises(res) == res.type = "list" /\ Len(res.val) = 0

\* result[-1] in place of result[0] (faulty variant).
first_result_last(res) == IF res.type = "list" THEN res.val[Len(res.val)] ELSE res.val

first_result(res) == IF res.type = "list" THEN res.val[1] ELSE res.val

\* A normalizer that keeps only the scores below the highest one (faulty
\* variant).
emotions_of_thresholded(face) ==
    [ k \in { l \in DOMAIN face.emotion : face.emotion[l].val < 2 } |->
        float(face.emotion[k]) ]

\* Lines 72-74: every score through float().
emotions_of(face) == [ k \in DOMAIN face.emotion |-> float(face.emotion[k]) ]

\* Lines 77-80: the success response.
success_response(face) ==
    [ dominant_emotion |-> face.dominant_emotion, emotions |-> emotions_of(face) ]

\* An except clause that names cv2.error only (faulty variant).
Caught_cv2_only(e) == e.class = "cv2.error"

\* Line 82: what the handler's except clause catches.
Caught(e) == e.is_exception

\* Lines 82-85: the error response.
error_response(e) == [ error |-> e.msg ]

SrvInit ==
    /\ spc = [ r \in Reqs |-> "read" ]
    /\ contents = [ r \in Reqs |-> Unset ]
    /\ img = [ r \in Reqs |-> Unset ]
    /\ path = [ r \in Reqs |-> Unset ]
    /\ fs = [ n \in TmpNames |-> None ]
    /\ analyzed = [ r \in Reqs |-> Unset ]
    /\ deepface_calls = [ r \in Reqs |-> 0 ]
    /\ result = [ r \in Reqs |-> Unset ]
    /\ reply = [ r \in Reqs |-> Unset ]

\* The invocation r ends: its locals contents, img and result and the
\* classifier's copy of the file go with it.  path is kept, as the record of
\* what r staged.
Leave(r) ==
    /\ contents' = [ contents EXCEPT ![r] = Unset ]
    /\ img' = [ img EXCEPT ![r] = Unset ]
    /\ analyzed' = [ analyzed EXCEPT ![r] = Unset ]
    /\ result' = [ result EXCEPT ![r] = Unset ]

\* An exception raised inside the try of invocation r: answered with the error
\* response when the except clause catches it, propagated otherwise.
Raise(r, e) ==
    /\ IF Caught(e)
         THEN /\ reply' = [ reply EXCEPT ![r] = error_response(e) ]
              /\ spc' = [ spc EXCEPT ![r] = "returned" ]
         ELSE /\ spc' = [ spc EXCEPT ![r] = "raised" ]
              /\ UNCHANGED reply
    /\ Leave(r)

\* Line 43: contents = await file.read()
analyze_read(r) ==
    /\ spc[r] = "read"
    /\ \/ \E up \in Uploads :
            /\ contents' = [ contents EXCEPT ![r] = Bytes(up) ]
            /\ spc' = [ spc EXCEPT ![r] = "decode" ]
            /\ UNCHANGED << reply, img, analyzed, result >>
       \/ Raise(r, Error("OSError", "read failed"))
    /\ UNCHANGED << devvars, path, fs, deepface_calls >>

\* Lines 46-49: np.frombuffer and cv2.imdecode.
analyze_decode(r) ==
    /\ spc[r] = "decode"
    /\ IF imdecode_raises(contents[r].val)
         THEN Raise(r, Error("cv2.error", "!buf.empty()"))
         ELSE /\ img' = [ img EXCEPT ![r] = imdecode(contents[r].val) ]
              /\ spc' = [ spc EXCEPT ![r] = "show" ]
              /\ UNCHANGED << reply, contents, analyzed, result >>
    /\ UNCHANGED << devvars, path, fs, deepface_calls >>

\* Lines 52-53: cv2.imshow and cv2.waitKey.
analyze_show(r) ==
    /\ spc[r] = "show"
    /\ \/ /\ ~imshow_raises(img[r])
          /\ spc' = [ spc EXCEPT ![r] = "stage" ]
          /\ UNCHANGED << reply, contents, img, analyzed, result >>
       \/ /\ imshow_raises(img[r])
          /\ Raise(r, Error("cv2.error", "size.width>0 && size.height>0"))
       \/ /\ ~imshow_raises(img[r])
          /\ Raise(r, Error("cv2.error", "cannot open display"))
    /\ UNCHANGED << devvars, path, fs, deepface_calls >>

\* Staging under one fixed file name (faulty variant).
FreshNames_fixed(files) == { 1 }

\* The name NamedTemporaryFile(suffix=".jpg", delete=False) gives: the file is
\* created exclusively under a random name and the draw is repeated while the
\* name is in use, so a name in use is never given.  Names carry no meaning:
\* the model takes the least unused one.
FreshNames(files) ==
    LET free == { n \in TmpNames : files[n] = None }
    IN { n \in free : \A m \in free : n <= m }

\* A temporary file made with the default delete=True: closing it removes it
\* (faulty variant).
CloseTmp_deleting(files, n, data) == [ files EXCEPT ![n] = None ]

\* Line 56, delete=False: leaving the with block closes the file and keeps it,
\* with what was written to it.
CloseTmp(files, n, data) == [ files EXCEPT ![n] = data ]

\* Lines 56-58: the temporary file is created, written and closed; it is not
\* deleted.
analyze_stage(r) ==
    /\ spc[r] = "stage"
    /\ \/ \E n \in FreshNames(fs) :
            /\ fs' = CloseTmp(fs, n, contents[r])
            /\ path' = [ path EXCEPT ![r] = Str(n) ]
            /\ spc' = [ spc EXCEPT ![r] = "deepface" ]
            /\ UNCHANGED << reply, contents, img, analyzed, result >>
       \/ \E n \in FreshNames(fs) :
            /\ fs' = CloseTmp(fs, n, Bytes(<< >>))
            /\ path' = [ path EXCEPT ![r] = Str(n) ]
            /\ Raise(r, Error("OSError", "No space left on device"))
       \/ /\ Raise(r, Error("OSError", "cannot create temporary file"))
          /\ UNCHANGED << fs, path >>
    /\ UNCHANGED << devvars, deepface_calls >>

\* Lines 61-65: DeepFace.analyze is called and loads the file named by img_path.
analyze_deepface(r) ==
    /\ spc[r] = "deepface"
    /\ analyzed' = [ analyzed EXCEPT ![r] = fs[path[r].val] ]
    /\ deepface_calls' = [ deepface_calls EXCEPT ![r] = @ + 1 ]
    /\ spc' = [ spc EXCEPT ![r] = "classify" ]
    /\ UNCHANGED << devvars, contents, img, path, fs, result, reply >>

\* Lines 61-65: DeepFace.analyze returns its result, or raises.
analyze_classify(r) ==
    /\ spc[r] = "classify"
    /\ \/ \E res \in AnalyzeReturns :
            /\ result' = [ result EXCEPT ![r] = res ]
            /\ spc' = [ spc EXCEPT ![r] = "normalize" ]
            /\ UNCHANGED << contents, img, analyzed, reply >>
       \/ Raise(r, Error("ValueError", "analysis failed"))
    /\ UNCHANGED << devvars, path, fs, deepface_calls >>

\* Lines 68-80: the first result is taken, normalized and returned.
analyze_normalize(r) ==
    /\ spc[r] = "normalize"
    /\ IF first_result_raises(result[r])
         THEN Raise(r, Error("IndexError", "list index out of range"))
         ELSE /\ reply' = [ reply EXCEPT ![r] = success_response(first_result(result[r])) ]
              /\ spc' = [ spc EXCEPT ![r] = "returned" ]
              /\ Leave(r)
    /\ UNCHANGED << devvars, path, fs, deepface_calls >>

-----------------------------------------------------------------------------
(* The device program *)

Init == DevInit /\ SrvInit

DevNext ==
    \/ NetworkChange
    \/ conectar_wifi_start
    \/ conectar_wifi_poll
    \/ conectar_wifi_return
    \/ inicializar_camara
    \/ main_sleep
    \/ tomar_foto
    \/ main_check
    \/ send_connect
    \/ send_header
    \/ send_body_start
    \/ send_img
    \/ send_body_end
    \/ send_recv
    \/ send_close

Next == DevNext

Spec == Init /\ [][Next]_vars

\* The device runs one thread and nothing else: a step of conectar_wifi that
\* stays possible is taken.
LiveSpec ==
    /\ Init
    /\ [][Next]_vars
    /\ WF_vars(conectar_wifi_start)
    /\ WF_vars(conectar_wifi_return)

-----------------------------------------------------------------------------
(* The server program: concurrent invocations of analyze_image *)

SrvNext ==
    \/ \E r \in Reqs : analyze_read(r)
    \/ \E r \in Reqs : analyze_decode(r)
    \/ \E r \in Reqs : analyze_show(r)
    \/ \E r \in Reqs : analyze_stage(r)
    \/ \E r \in Reqs : analyze_deepface(r)
    \/ \E r \in Reqs : analyze_classify(r)
    \/ \E r \in Reqs : analyze_normalize(r)

\* The server runs on its own: the device of the model stays as it starts.
ServerInit == Init /\ ~attached

ServerSpec == ServerInit /\ [][SrvNext]_vars

-----------------------------------------------------------------------------
(* Properties *)

\* camera.capture() failed in this tick: it raised, or returned None, False or
\* a value that is not a byte buffer.
CaptureFailed ==
    IF cam.raises THEN TRUE
    ELSE /\ cam # NoCapture
         /\ \/ cam.val = None
            \/ cam.val = False
            \/ cam.val.type \notin { "bytes", "bytearray" }

\* C1: in a tick whose capture failed, no step calls send_image, opens a
\* connection or writes a byte, and the step after the test of the frame goes
\* back to the wait of the next tick.
C1_FailedCaptureSkipsUpload ==
    [][ CaptureFailed =>
          /\ send_calls' = send_calls
          /\ socks' = socks
          /\ hdr' = NoHeader
          /\ handed' = 0
          /\ accepted' = 0
          /\ pc' \notin SendImagePcs
          /\ (pc = "check_foto" /\ pc' # pc) => pc' = "sleep" ]_vars

\* Two ticks whose captures failed, the second by an exception: the loop is
\* waiting for the third, and send_image was never called.
C1_Witness ==
    /\ CaptureFailed
    /\ cam.raises
    /\ ticks = 2
    /\ capture_calls = 2
    /\ pc = "sleep"
    /\ send_calls = 0
    /\ socks = << >>

ErrorShape(v) == DOMAIN v = { "error" }
SuccessShape(v) == DOMAIN v = { "dominant_emotion", "emotions" }

\* str(e) of the failures of reading, decoding, displaying, staging,
\* classifying and normalizing.
FailureMessages ==
    { "read failed", "!buf.empty()", "size.width>0 && size.height>0",
      "cannot open display", "No space left on device",
      "cannot create temporary file", "analysis failed", "list index out of range" }

\* C2: no invocation of analyze_image ends by raising, and every invocation
\* that returned gave either a mapping with the single key "error", holding the
\* message of a failure, or a mapping with exactly the keys "dominant_emotion"
\* and "emotions".
C2_AlwaysAnswers ==
    \A r \in Reqs :
      /\ spc[r] # "raised"
      /\ spc[r] = "returned" =>
           \/ ErrorShape(reply[r]) /\ reply[r].error \in FailureMessages
           \/ SuccessShape(reply[r])
      /\ spc[r] # "returned" => reply[r] = Unset

\* One invocation answered a failure of the classifier with the error shape
\* while another answered with the success shape.
C2_Witness ==
    \E r1, r2 \in Reqs :
      /\ spc[r1] = "returned" /\ reply[r1] = [ error |-> "analysis failed" ]
      /\ spc[r2] = "returned" /\ SuccessShape(reply[r2])

\* C3: outside send_image every socket that was created is closed.
C3_ConnectionClosedAfterSendImage ==
    pc \notin SendImagePcs => \A i \in 1..Len(socks) : socks[i] = "closed"

\* C4: a socket-level error of send_image never ends the capture loop: the
\* program is not halted by it and goes on to the next tick.
C4_LoopSurvivesDeliveryFailure ==
    ~(pc = "halted" /\ exc = "OSError")

\* C5: the camera is armed and asked for a capture only after
\* wlan.isconnected() has answered true to conectar_wifi; until then the counts
\* of camera.init and camera.capture calls are zero and the camera is unarmed.
C5_NoCaptureBeforeAttach ==
    /\ (init_calls > 0 \/ capture_calls > 0 \/ armed # "no") => isconnected
    /\ pc \in { "conectar_wifi", "wifi_poll" } =>
         init_calls = 0 /\ capture_calls = 0 /\ ticks = 0

\* The device polled while unattached, attached later, and has captured.
C5_Witness ==
    /\ polls = MaxPolls
    /\ isconnected
    /\ init_calls = 1
    /\ capture_calls >= 1

DigitVal(c) == CHOOSE d \in 0..9 : DigitChar[d + 1] = c

\* The number a decimal digit string denotes, as the receiver reads it.
RECURSIVE ParseInt(_)
ParseInt(ds) ==
    IF Len(ds) = 0 THEN 0
    ELSE 10 * ParseInt(SubSeq(ds, 1, Len(ds) - 1)) + DigitVal(ds[Len(ds)])

\* C6: once send_image has handed preamble, payload and terminator to the
\* connection, the Content-Length written in the header denotes the number of
\* body bytes handed over, which is the length of preamble + payload +
\* terminator; before that it is never less than the bytes handed so far.
C6_ContentLengthIsBodyLength ==
    hdr # NoHeader =>
      /\ handed <= ParseInt(hdr.content_length)
      /\ pc \in { "send_recv", "send_close" } =>
           /\ ParseInt(hdr.content_length) = handed
           /\ handed = Len(body_start \o foto.val \o body_end)

\* The whole body of an empty frame has been handed over.
C6_Witness ==
    /\ pc = "send_recv"
    /\ foto = Bytes(<< >>)
    /\ handed = Len(body_start) + Len(body_end)

\* C7: in every success response the dominant emotion is a key of the
\* emotions mapping.
C7_DominantIsAKey ==
    \A r \in Reqs :
      (spc[r] = "returned" /\ SuccessShape(reply[r])) =>
         reply[r].dominant_emotion \in DOMAIN reply[r].emotions

\* A success response whose dominant emotion is the second label.
C7_Witness ==
    \E r \in Reqs :
      /\ spc[r] = "returned"
      /\ SuccessShape(reply[r])
      /\ reply[r].dominant_emotion = "sad"

\* C8: invocations that staged their upload hold pairwise distinct file names,
\* and the bytes the classifier loaded for an invocation are that invocation's
\* own upload.
C8_StagingDoesNotInterfere ==
    /\ \A r1, r2 \in Reqs :
         (r1 # r2 /\ path[r1] # Unset /\ path[r2] # Unset) => path[r1] # path[r2]
    /\ \A r \in Reqs :
         spc[r] \in { "deepface", "classify", "normalize" } =>
           fs[path[r].val] = contents[r]
    /\ \A r \in Reqs :
         analyzed[r] # Unset => analyzed[r] = contents[r]

\* Two invocations with different uploads are inside the classifier at once.
C8_Witness ==
    \E r1, r2 \in Reqs :
      /\ spc[r1] = "classify" /\ spc[r2] = "classify"
      /\ contents[r1] # contents[r2]
      /\ analyzed[r1] = contents[r1]
      /\ analyzed[r2] = contents[r2]

\* The upload of invocation r is a byte buffer that does not decode.
Undecodable(r) ==
    /\ contents[r] # Unset
    /\ \/ imdecode_raises(contents[r].val)
       \/ imdecode(contents[r].val) = None

\* C9: an invocation whose upload does not decode (the empty buffer included)
\* never reaches staging or the classifier, and when it returns it returns the
\* error shape with a non-empty message.
C9_UndecodableGivesError ==
    [][ \A r \in Reqs :
          Undecodable(r) =>
            /\ spc'[r] \in { "decode", "show", "returned" }
            /\ spc'[r] = "returned" =>
                 /\ ErrorShape(reply'[r])
                 /\ reply'[r].error # "" ]_vars

\* One invocation was answered for the empty buffer and another for a buffer
\* that holds no image.
C9_Witness ==
    \E r1, r2 \in Reqs :
      /\ reply[r1] = [ error |-> "!buf.empty()" ]
      /\ reply[r2] = [ error |-> "size.width>0 && size.height>0" ]

\* C10: the camera is armed at most once, exactly once before any capture;
\* once inicializar_camara has run, with or without success, the program is in
\* the capture loop, and only an exception of a later send_image ends it.
C10_ArmOnceNotFatal ==
    /\ init_calls <= 1
    /\ capture_calls > 0 => init_calls = 1
    /\ armed # "no" <=> init_calls = 1
    /\ init_calls = 1 =>
         /\ pc \in { "sleep", "tomar_foto", "check_foto", "halted" } \cup SendImagePcs
         /\ pc = "halted" => (send_calls >= 1 /\ exc # "")

\* Arming failed and the loop has captured twice since.
C10_Witness ==
    /\ armed = "failed"
    /\ init_calls = 1
    /\ capture_calls = 2

Connecting == pc \in { "conectar_wifi", "wifi_poll" }

\* C11: while the network is not attached conectar_wifi stays in its polling
\* loop, whatever the number of polls made, without an exception and without a
\* result; and if the network comes to stay attached, conectar_wifi returns the
\* assigned address.
C11_PollsUntilAttached ==
    /\ [](Connecting => (ip = None /\ exc = "" /\ init_calls = 0))
    /\ [][ (pc = "wifi_poll" /\ ~attached) =>
             (pc' = "wifi_poll" /\ ip' = None /\ exc' = "") ]_vars
    /\ (<>[]attached => <>(~Connecting /\ ip = Str("ifconfig0")))

\* conectar_wifi has returned the address after as many polls as the model
\* allows, all of them answered "not connected".
C11_Witness ==
    /\ polls = MaxPolls
    /\ pc = "inicializar_camara"
    /\ ip = Str("ifconfig0")
    /\ isconnected

\* The response v holds the dominant emotion and the scores of the result
\* object face, and nothing else.
BuiltFrom(v, face) ==
    /\ SuccessShape(v)
    /\ v.dominant_emotion = face.dominant_emotion
    /\ DOMAIN v.emotions = DOMAIN face.emotion
    /\ \A k \in DOMAIN face.emotion :
         v.emotions[k] = [ type |-> "float", val |-> face.emotion[k].val ]

\* C12: when DeepFace.analyze gave a list that is not empty, the response is
\* built from element 0 of the list, whatever the later elements are; when it
\* gave a single result object, the response is built from that object.
C12_FirstResultOnly ==
    [][ \A r \in Reqs :
          (spc[r] = "normalize" /\ spc'[r] = "returned") =>
            /\ (result[r].type = "list" /\ Len(result[r].val) > 0) =>
                 BuiltFrom(reply'[r], result[r].val[1])
            /\ result[r].type = "dict" => BuiltFrom(reply'[r], result[r].val) ]_vars

\* DeepFace.analyze has given one invocation a list of two results with
\* different dominant emotions, and another invocation a single result.
C12_Witness ==
    \E r1, r2 \in Reqs :
      /\ spc[r1] = "normalize"
      /\ result[r1].type = "list"
      /\ Len(result[r1].val) = 2
      /\ result[r1].val[1].dominant_emotion # result[r1].val[2].dominant_emotion
      /\ spc[r2] = "normalize"
      /\ result[r2].type = "dict"

\* What the receiving side does with a multipart body (RFC 2046): the body
\* opens with "--" boundary CRLF, the headers of the part end at the first
\* empty line, and its data ends right before the first CRLF "--" boundary.
delimiter == CRLF \o << "-", "-" >> \o boundary

Occurs(pat, b, i) ==
    /\ i + Len(pat) - 1 <= Len(b)
    /\ SubSeq(b, i, i + Len(pat) - 1) = pat

\* Index of the first occurrence of pat in b at or after from; 0 if none.
FirstAt(pat, b, from) ==
    LET I == { i \in from..Len(b) : Occurs(pat, b, i) }
    IN  IF I = {} THEN 0 ELSE CHOOSE i \in I : \A j \in I : i <= j

Contains(pat, b) == FirstAt(pat, b, 1) # 0

ParseBody(b) ==
    LET opening == << "-", "-" >> \o boundary \o CRLF
        h == FirstAt(CRLF \o CRLF, b, Len(opening) + 1)
        d == IF h = 0 THEN 0 ELSE FirstAt(delimiter, b, h + 4)
    IN  IF Occurs(opening, b, 1) /\ h # 0 /\ d # 0
          THEN [ ok   |-> TRUE,
                 name |-> IF Occurs(disposition, b, Len(opening) + 1) THEN "file" ELSE "",
                 data |-> SubSeq(b, h + 4, d - 1) ]
          ELSE [ ok |-> FALSE ]

RoundTrips(b, frame) ==
    /\ ParseBody(b).ok
    /\ ParseBody(b).name = "file"
    /\ ParseBody(b).data = frame

\* C13 as stated: for every frame, parsing the body send_image has written
\* (body_start, frame, body_end) gives one part named "file" whose data is the
\* frame.
C13_RoundTripEveryFrame ==
    pc = "send_recv" => RoundTrips(wire, foto.val)

\* C13 as amended: the round trip holds for every frame that does not contain
\* the delimiter CRLF "--" ESP32BOUNDARY; a frame that contains it comes back
\* cut at its first occurrence.
C13_RoundTripWithoutDelimiter ==
    pc = "send_recv" =>
      /\ wire = body_start \o foto.val \o body_end
      /\ ~Contains(delimiter, foto.val) => RoundTrips(wire, foto.val)
      /\ Contains(delimiter, foto.val) =>
           RoundTrips(wire, SubSeq(foto.val, 1, FirstAt(delimiter, foto.val, 1) - 1))

\* A frame that holds "--ESP32BOUNDARY" but no line break before it has been
\* written and parses back to itself.
C13_Witness ==
    /\ pc = "send_recv"
    /\ foto = Bytes(<< "-", "-" >> \o boundary)
    /\ RoundTrips(wire, foto.val)

OpenSocks == { i \in 1..Len(socks) : socks[i] = "open" }

\* C14: at most one connection is open at any time; no capture and no upload
\* starts while a connection is open; within a tick the capture comes first,
\* then the upload, then the reply; no connection carries more than one
\* request, and a connection that was closed carried exactly one.
C14_OneConnectionOneRequest ==
    /\ Cardinality(OpenSocks) <= 1
    /\ pc \in { "sleep", "tomar_foto", "check_foto", "send_connect" } => OpenSocks = {}
    /\ Len(requests) = Len(socks)
    /\ \A i \in 1..Len(socks) :
         /\ requests[i] <= 1
         /\ socks[i] = "closed" => requests[i] = 1
    /\ Len(socks) <= send_calls /\ send_calls <= capture_calls /\ capture_calls <= ticks
    /\ pc \in SendImagePcs =>
         /\ ~cam.raises /\ foto = cam.val /\ foto.type = "bytes"
         /\ capture_calls = ticks
         /\ resp = None
    /\ pc \in { "tomar_foto", "check_foto" } => (wire = << >> /\ chunks = << >> /\ resp = None)
    /\ resp # None => (pc = "sleep" /\ Len(socks) = send_calls /\ resp = Bytes(response))

\* A second upload awaits its reply on a second connection after the first
\* connection was closed.
C14_Witness ==
    /\ pc = "send_recv"
    /\ socks = << "closed", "open" >>
    /\ requests = << 1, 1 >>
    /\ chunks # << >>

RECURSIVE Flatten(_)
Flatten(ss) == IF Len(ss) = 0 THEN << >> ELSE Head(ss) \o Flatten(Tail(ss))

\* C15: when the peer has closed the stream, send_image returns to the main
\* loop the concatenation of the chunks it read, whatever they hold.
C15_ReturnsAllChunks ==
    [][ (pc = "send_close" /\ pc' # pc) =>
          (pc' = "sleep" /\ resp' = Bytes(Flatten(chunks))) ]_vars

\* C16: the header block, body_start, the frame and body_end are written in
\* this order, the reply is read only after body_end, and the connection has
\* accepted every byte the Content-Length header counts.
C16_WritesInOrderAndCompletely ==
    /\ pc = "send_header" => (hdr = NoHeader /\ wire = << >>)
    /\ pc = "send_body_start" => (hdr = Header(foto.val) /\ wire = << >>)
    /\ pc = "send_img" => wire = body_start
    /\ pc = "send_body_end" => wire = body_start \o foto.val
    /\ pc \in { "send_recv", "send_close" } => wire = body_start \o foto.val \o body_end
    /\ chunks # << >> => wire = body_start \o foto.val \o body_end
    /\ pc \in { "send_recv", "send_close" } => accepted = ParseInt(hdr.content_length)

\* C17: every camera.capture() call comes after one time.sleep(SleepInterval)
\* of the main loop and nothing else since the previous capture: the first
\* one after arming, and each one after an upload or a failed capture.
C17_WaitBeforeEveryCapture ==
    /\ [][ capture_calls' # capture_calls =>
             /\ capture_calls' = capture_calls + 1
             /\ waited = SleepInterval
             /\ waited' = 0
             /\ ticks = capture_calls + 1 ]_vars
    /\ [](waited \in { 0, SleepInterval })
    /\ [](capture_calls <= ticks /\ ticks <= capture_calls + 1)

\* A second capture has been requested after a completed upload, and a frame
\* was not obtained this time.
C17_Witness ==
    /\ capture_calls = 2
    /\ ticks = 2
    /\ waited = 0
    /\ send_calls = 1 /\ socks = << "closed" >>
    /\ pc = "check_foto" /\ foto = None

StagedFiles == { n \in TmpNames : fs[n] # None }
Stagers == { r \in Reqs : path[r] # Unset }

\* C18: an invocation that has staged its temporary file has exactly one file,
\* which exists from then on, after the handler has returned too, with a
\* success or with the classifier's failure; no file is ever removed, so the
\* number of staged files never decreases.
C18_StagedFileIsNeverRemoved ==
    /\ [](\A r \in Reqs :
            /\ spc[r] \in { "deepface", "classify", "normalize" } => path[r] # Unset
            /\ path[r] # Unset => fs[path[r].val] # None)
    /\ [](Cardinality(StagedFiles) = Cardinality(Stagers))
    /\ [][ /\ \A n \in TmpNames : fs[n] # None => fs'[n] = fs[n]
           /\ \A r \in Reqs : path[r] # Unset => path'[r] = path[r] ]_vars

\* One invocation has returned a success and another the classifier's
\* failure, and the files of both are in the staging directory.
C18_Witness ==
    \E r1, r2 \in Reqs :
      /\ spc[r1] = "returned" /\ SuccessShape(reply[r1])
      /\ spc[r2] = "returned" /\ reply[r2] = [ error |-> "analysis failed" ]
      /\ path[r1] # Unset /\ path[r2] # Unset /\ path[r1] # path[r2]
      /\ fs[path[r1].val] # None /\ fs[path[r2].val] # None

\* The error messages of a failed decode: cv2.imdecode rejecting the empty
\* buffer, cv2.imshow rejecting the None that cv2.imdecode gave.
DecodeFailures == { "!buf.empty()", "size.width>0 && size.height>0" }

\* C19: an invocation whose upload does not decode stages no temporary file
\* and does not call DeepFace.analyze, while it runs and after it has
\* returned; none of its steps changes the staging directory.
C19_FailedDecodeTouchesNothing ==
    /\ [](\A r \in Reqs :
            (\/ Undecodable(r)
             \/ spc[r] = "returned" /\ ErrorShape(reply[r]) /\ reply[r].error \in DecodeFailures)
            => (path[r] = Unset /\ deepface_calls[r] = 0 /\ analyzed[r] = Unset
                /\ result[r] = Unset))
    /\ [][ \A r \in Reqs :
             (Undecodable(r) /\ spc'[r] # spc[r]) =>
               (fs' = fs /\ path' = path /\ deepface_calls' = deepface_calls) ]_vars

\* One invocation was answered for a buffer that holds no image, with nothing
\* staged and no classifier call, while another had staged its file.
C19_Witness ==
    \E r1, r2 \in Reqs :
      /\ spc[r1] = "returned"
      /\ reply[r1] = [ error |-> "size.width>0 && size.height>0" ]
      /\ path[r1] = Unset /\ deepface_calls[r1] = 0
      /\ path[r2] # Unset /\ deepface_calls[r2] = 1
      /\ Cardinality(StagedFiles) = 1

=============================================================================
